---- MODULE Spec2Model ----
(***************************************************************************)
(* Model of src/main.py: the GitLab -> GOGS backup job.                    *)
(*                                                                         *)
(* One process (main) constructs GitLabToGOGSBackup, which validates the   *)
(* environment, authenticates to GitLab and verifies the GOGS organization,*)
(* then run() enumerates the group and transfers every project with        *)
(* _backup_repository.  The external collaborators (GitLab API, GOGS API,  *)
(* git transport) answer nondeterministically; the GOGS repository store   *)
(* answers truthfully about which repositories exist.                      *)
(***************************************************************************)
EXTENDS Integers, Sequences, FiniteSets, TLC

VARIABLES
    env,         \* os.environ: the settings read by __init__
    gogsUrl,     \* self.gogs_url: as read from os.environ, then normalised
    group,       \* the source group: its non-archived projects, in listing order
    srcRefs,     \* source side: the refs of each project id, ref name -> <<id, version>>
    dest,        \* GOGS side: <<owner, name>> -> Absent or the refs held
    pc,          \* position of the process
    rerun,       \* this invocation of main() is the re-run of the job
    projects,    \* run(): the enumerated list
    idx,         \* run(): 1-based position in the enumeration
    successful,  \* run(): list of names
    failed,      \* run(): list of <<name, error>>
    tempdir,     \* _backup_repository: TemporaryDirectory is held
    repo,        \* _backup_repository: the mirror clone (refs, origin url)
    exitCode,    \* <<status>> once the process has exited, <<>> while it runs
    summary,     \* "Backup Summary" has been logged
    abortedAt,   \* the step whose exception ended the process, "none" otherwise
    reqs,        \* requests issued by this invocation (API calls, git transport)
    steps,       \* the calls made since the latest workspace was acquired (or
                 \* since the start), each with the answer it got
    srcChanges,  \* number of source pushes by third parties so far
    pushed,      \* the push of each project of this invocation: what it sent, what
                 \* the destination took of it and whether the call returned;
                 \* NotPushed if none was made
    prev         \* what the previous invocation left, NoPrev in the first

vars == <<env, gogsUrl, group, srcRefs, dest, pc, rerun, projects, idx, successful,
          failed, tempdir, repo, exitCode, summary, abortedAt, reqs, steps,
          srcChanges, pushed, prev>>

----------------------------------------------------------------------------
(* Bounds *)
MaxProjects == 2
MaxSrcChanges == 1

Names == {"a", "b"}
Paths == <<"g/p1", "g/s/p2", "g/s/p3", "g/t/p4">>
OrgName == "org1"
UserName == "user1"

(* the names of the refs a repository has; a ref is <<id, version>>: the *)
(* project it was written from and the version of that project's source *)
RefNames == {"main", "extra"}
NoRef == <<0, 0>>
NoRefs == [r \in RefNames |-> NoRef]
RefsOf(id, version) == [r \in RefNames |-> <<id, version>>]

Absent == [exists |-> FALSE, refs |-> NoRefs]
Present(r) == [exists |-> TRUE, refs |-> r]
NoExit == <<>>
NoRepo == [cloned |-> FALSE, refs |-> NoRefs, origin |-> <<>>]
NotPushed == [refs |-> NoRefs, taken |-> {}, returned |-> FALSE]
NoPrev == [ran |-> FALSE, pushed |-> <<>>, dest |-> <<>>]

RequiredVars ==
    {"GITLAB_TOKEN", "GITLAB_GROUP_ID", "GOGS_INSTANCE_URL", "GOGS_USERNAME",
     "GOGS_ACCESS_TOKEN"}

(* the variables __init__ reads, lines 46-54 *)
AllVars == RequiredVars \cup {"GOGS_ORG", "GITLAB_HOST_URL"}

(* the variable is not in os.environ; os.environ.get gives its default *)
Unset == "<unset>"

(* A url is the sequence of its parts, the scheme with its "://" being  *)
(* one part and every "/" after the host a part of its own; the other   *)
(* settings are strings.  The empty value of a variable:                *)
EmptyValue(var) == IF var = "GOGS_INSTANCE_URL" THEN <<>> ELSE ""

(* the value a variable has in the nominal deployment *)
ValueOf(var) ==
    CASE var = "GITLAB_HOST_URL" -> "gitlab.example"
      [] var = "GITLAB_TOKEN" -> "gltok"
      [] var = "GITLAB_GROUP_ID" -> "42"
      [] var = "GOGS_INSTANCE_URL" -> <<"https://", "gogs">>
      [] var = "GOGS_USERNAME" -> UserName
      [] var = "GOGS_ACCESS_TOKEN" -> "gogstok"
      [] var = "GOGS_ORG" -> OrgName

(* the values a variable is given: empty (the same as unset where the    *)
(* default is ""), the nominal value, and for the host "not set", for    *)
(* the destination a URL that does not start with https:// and one that  *)
(* ends with slashes                                                     *)
ValuesOf(var) ==
    CASE var = "GITLAB_HOST_URL" -> {Unset, "", ValueOf(var)}
      [] var = "GOGS_INSTANCE_URL" ->
            {<<>>, ValueOf(var), <<"http://", "gogs">>,
             <<"http://", "gogs", "/">>, <<"https://", "gogs", "/", "/">>}
      [] OTHER -> {"", ValueOf(var)}

Nominal == [v \in AllVars |-> ValueOf(v)]

(* the nominal environment and every environment that differs from it in *)
(* one variable                                                          *)
Environments ==
    {Nominal} \cup
    UNION {{[Nominal EXCEPT ![v] = x] : x \in ValuesOf(v)} : v \in AllVars}

(* the schemes GitLab reports a project's http_url_to_repo with *)
Schemes == {"https://", "http://"}

(* http_url_to_repo of the project at a path *)
HttpUrlToRepo(scheme, path) == <<scheme, "gitlab.example", "/", path, ".git">>

(* the group's projects: ids 1..n, short names that may collide, all    *)
(* reported with one scheme.  A short name matters only by the names it *)
(* equals, so the first project is given the first name                 *)
Groups ==
    UNION {{[i \in 1..n |-> [id |-> i, name |-> nm[i], path |-> Paths[i],
                             url |-> HttpUrlToRepo(scheme, Paths[i])]] :
                nm \in {f \in [1..n -> Names] : n >= 1 => f[1] = "a"},
                scheme \in Schemes} :
           n \in 0..MaxProjects}

----------------------------------------------------------------------------
(* Pure helpers of GitLabToGOGSBackup *)

(* MissingVars with the destination token left out of the check *)
MissingVars_NoGogsToken(e) ==
    {v \in RequiredVars \ {"GOGS_ACCESS_TOKEN"} : e[v] = EmptyValue(v)}

(* _validate_config: missing_vars *)
MissingVars(e) == {v \in RequiredVars : e[v] = EmptyValue(v)}

(* str.rstrip("/"): the slashes at the end are dropped, those of the    *)
(* scheme part included when nothing follows it                         *)
RECURSIVE RStripSlash(_)
RStripSlash(url) ==
    IF url = <<>> THEN <<>>
    ELSE LET last == url[Len(url)]
             front == SubSeq(url, 1, Len(url) - 1) IN
         IF last = "/" THEN RStripSlash(front)
         ELSE IF last = "https://" THEN Append(front, "https:")
         ELSE IF last = "http://" THEN Append(front, "http:")
         ELSE url

(* str.replace(old, new): every part `old` of the url gives way to the  *)
(* parts `new`, a url without it is returned as it is                   *)
RECURSIVE Replace(_, _, _)
Replace(url, old, new) ==
    IF url = <<>> THEN <<>>
    ELSE (IF Head(url) = old THEN new ELSE <<Head(url)>>)
            \o Replace(Tail(url), old, new)

(* __init__, line 46: self.gitlab_url *)
GitlabUrl(e) ==
    <<"https://", IF e["GITLAB_HOST_URL"] = Unset THEN "gitlab.com"
                  ELSE e["GITLAB_HOST_URL"]>>

(* __init__: if self.gogs_org *)
OrgConfigured(e) == e["GOGS_ORG"] # ""

(* the owner segment chosen by "if self.gogs_org: ... else: ..." *)
Owner(e) == IF e["GOGS_ORG"] # "" THEN e["GOGS_ORG"] ELSE e["GOGS_USERNAME"]

(* _verify_gogs_org_exists: endpoint *)
OrgEndpoint(e) == <<"orgs", e["GOGS_ORG"]>>

(* _check_gogs_repo_exists: endpoint *)
ExistsEndpoint(e, name) ==
    IF e["GOGS_ORG"] # ""
        THEN <<"repos", e["GOGS_ORG"], name>>
        ELSE <<"repos", e["GOGS_USERNAME"], name>>

(* _create_gogs_repo: endpoint *)
CreateEndpoint(e) ==
    IF e["GOGS_ORG"] # ""
        THEN <<"org", e["GOGS_ORG"], "repos">>
        ELSE <<"user", "repos">>

(* GogsCloneUrl without the organization branch *)
GogsCloneUrl_UserOnly(gogs_url, e, name) ==
    Replace(gogs_url, "https://",
            <<"https://", e["GOGS_USERNAME"], ":", e["GOGS_ACCESS_TOKEN"], "@">>)
        \o <<"/", e["GOGS_USERNAME"], "/", name, ".git">>

(* _get_gogs_clone_url: {gogs_base}/{repo_path}.git, gogs_base being     *)
(* self.gogs_url with user:token@ put behind every "https://"            *)
GogsCloneUrl(gogs_url, e, name) ==
    Replace(gogs_url, "https://",
            <<"https://", e["GOGS_USERNAME"], ":", e["GOGS_ACCESS_TOKEN"], "@">>)
        \o (IF e["GOGS_ORG"] # ""
               THEN <<"/", e["GOGS_ORG"], "/", name, ".git">>
               ELSE <<"/", e["GOGS_USERNAME"], "/", name, ".git">>)

(* _backup_repository: gitlab_url, http_url_to_repo with oauth2:token@   *)
(* put behind every "https://"                                           *)
GitlabCloneUrl(e, project) ==
    Replace(project.url, "https://",
            <<"https://", "oauth2", ":", e["GITLAB_TOKEN"], "@">>)

(* the GOGS repository a clone url {base}/{owner}/{name}.git addresses *)
RepoOfUrl(url) == <<url[Len(url) - 3], url[Len(url) - 1]>>

(* the GOGS repository an API endpoint /repos/{owner}/{name} addresses *)
RepoOfEndpoint(ep) == <<ep[2], ep[3]>>

(* the GOGS repository POST {endpoint} {name} creates *)
RepoOfCreate(e, ep, name) ==
    IF ep[1] = "org" THEN <<ep[2], name>> ELSE <<e["GOGS_USERNAME"], name>>

Owners == {OrgName, UserName}
DestKeys == Owners \X Names

----------------------------------------------------------------------------
(* Decisions taken by the code on a collaborator's answer *)

(* GitOK with the exit status of git ignored *)
GitOK_All == {0, 128}

GitOK == {0}
GitResults == {0, 128}
HttpError(status) == status >= 400

(* GitlabOutcome with the error of a lookup swallowed *)
GitlabOutcome_Swallowed(status) == "ok"

(* python-gitlab raises a GitlabError on an error answer; the callers    *)
(* (__init__ line 70, run lines 256, 260, 276) do not catch it locally   *)
GitlabOutcome(status) == IF HttpError(status) THEN "GitlabError" ELSE "ok"

(* VerifyOrgOutcome with "access denied" only logged, not raised *)
VerifyOrgOutcome_403Passes(status) ==
    IF ~HttpError(status) THEN "ok"
    ELSE IF status = 404 THEN "ValueError"
    ELSE IF status = 403 THEN "ok"
    ELSE "HTTPError"

(* _verify_gogs_org_exists, lines 103-120: every error status raises *)
VerifyOrgOutcome(status) ==
    IF ~HttpError(status) THEN "ok"
    ELSE IF status = 404 THEN "ValueError"
    ELSE IF status = 403 THEN "ValueError"
    ELSE "HTTPError"

(* ExistsOutcome with every error answer taken for "absent" *)
ExistsOutcome_ErrorIsAbsent(status) ==
    IF ~HttpError(status) THEN "True" ELSE "False"

(* ExistsOutcome with the answer ignored: the repository is always created *)
ExistsOutcome_AlwaysAbsent(status) ==
    IF ~HttpError(status) THEN "False"
    ELSE IF status = 404 THEN "False"
    ELSE "HTTPError"

(* _check_gogs_repo_exists, lines 135-149 *)
ExistsOutcome(status) ==
    IF ~HttpError(status) THEN "True"
    ELSE IF status = 404 THEN "False"
    ELSE "HTTPError"

(* CreateOutcome without the 409 branch: a conflict is raised *)
CreateOutcome_ConflictRaises(e, status) ==
    IF ~HttpError(status) THEN "return"
    ELSE IF status = 404 /\ e["GOGS_ORG"] # "" THEN "HTTPError"
    ELSE "HTTPError"

(* _create_gogs_repo, lines 176-193 *)
CreateOutcome(e, status) ==
    IF ~HttpError(status) THEN "return"
    ELSE IF status = 409 THEN "return"
    ELSE IF status = 404 /\ e["GOGS_ORG"] # "" THEN "HTTPError"
    ELSE "HTTPError"

(* origin.push(mirror=True), line 240: the call raises GitCommandError   *)
(* when git ended with an error and without a line per ref (128); when   *)
(* git ended with an error after reporting per ref (1) it returns the    *)
(* per-ref results, which line 240 drops                                 *)
PushOutcome(result) ==
    IF result = 0 THEN "return"
    ELSE IF result = 1 THEN "return"
    ELSE "GitCommandError"

(* the refs the destination may have taken when the push ended so: all *)
(* of them (0); any of them, all included, when git ended with an      *)
(* error: a ref can be refused on its own, and the destination can     *)
(* write every ref and report it before the connection breaks (1), or  *)
(* write refs whose report is lost (128)                               *)
PushTaken(result) ==
    IF result = 0 THEN {RefNames}
    ELSE IF result = 1 THEN SUBSET RefNames
    ELSE SUBSET RefNames

(* the refs a repository holds after a push of `sent` of which the      *)
(* destination took the refs named in `taken`                           *)
AfterPush(held, sent, taken) ==
    [r \in RefNames |-> IF r \in taken THEN sent[r] ELSE held[r]]

TransferSteps == {"clone", "exists", "create", "remote", "push"}

(* the statements of _backup_repository: the with-statement and the steps *)
BackupSteps == {"tempdir"} \cup TransferSteps

(* RunHandler with a failed creation treated as fatal for the run *)
RunHandler_CreateFatal(step) ==
    IF step \in BackupSteps \ {"create"} THEN "record" ELSE "exit"

(* run(): which handler catches an exception raised at a step.  The call  *)
(* of _backup_repository is inside try/except Exception (lines 283-288);  *)
(* everything else in run() reaches the outer handlers (lines 303-309).   *)
RunHandler(step) ==
    IF step \in BackupSteps THEN "record" ELSE "exit"

(* ExitStatus without the sys.exit(1) of line 301 *)
ExitStatus_AlwaysZero(failedList) == 0

(* run(), lines 295-301, and main(), line 319: the status after the summary *)
ExitStatus(failedList) == IF failedList # <<>> THEN 1 ELSE 0

(* str(e) of the exception a step raised *)
ErrorText(step, status) == <<step, status>>

(* the answers the GOGS repository store can give *)
ExistsStatuses(d, key) == (IF d[key].exists THEN {200} ELSE {404}) \cup {500}
CreateStatuses(d, key) == (IF d[key].exists THEN {409} ELSE {201}) \cup {404, 500}
OrgStatuses == {200, 403, 404, 500}
GitlabStatuses == {200, 404}

(* the answers to self.gl.auth(): none is a success when the url names no *)
(* host to connect to                                                     *)
AuthStatuses(e) ==
    IF GitlabUrl(e)[2] = "" THEN GitlabStatuses \ {200} ELSE GitlabStatuses

(* tempfile.TemporaryDirectory(): created, or OSError (no usable directory) *)
WorkspaceResults == {0, 2}

(* the ways a mirror push ends: git exits 0; git ends with an error after *)
(* a line per ref was reported (1); git ends with an error and no line    *)
(* per ref (128)                                                          *)
PushResults == {0, 1, 128}

----------------------------------------------------------------------------
(* State *)

Req(op, target, name) == [op |-> op, target |-> target, name |-> name]

NothingPushed == [i \in 1..MaxProjects |-> NotPushed]

(* the state of a fresh process: __init__ has read os.environ *)
Fresh ==
    /\ pc = "validate"
    /\ projects = <<>>
    /\ idx = 0
    /\ successful = <<>>
    /\ failed = <<>>
    /\ tempdir = FALSE
    /\ repo = NoRepo
    /\ exitCode = NoExit
    /\ summary = FALSE
    /\ abortedAt = "none"
    /\ reqs = {}
    /\ steps = <<>>
    /\ pushed = NothingPushed

(* the deployment: the nominal one, or one that differs from it in one *)
(* variable or in the scheme the source reports                        *)
Init ==
    /\ env \in Environments
    /\ group \in Groups
    /\ env = Nominal \/ \A i \in 1..Len(group) : group[i].url[1] = "https://"
    /\ gogsUrl = env["GOGS_INSTANCE_URL"]
    /\ srcRefs = [i \in 1..Len(group) |-> RefsOf(i, 1)]
    /\ dest = [k \in DestKeys |-> Absent]
    /\ rerun = FALSE
    /\ srcChanges = 0
    /\ prev = NoPrev
    /\ Fresh

world == <<env, gogsUrl, group, srcRefs, dest, rerun, srcChanges, prev>>
loop == <<projects, idx, successful, failed>>
transfer == <<tempdir, repo, steps, pushed>>

(* an exception that reaches main(): logger.exception, sys.exit(1) *)
Exit1(step) ==
    /\ pc' = "exited"
    /\ exitCode' = <<1>>
    /\ abortedAt' = step
    /\ tempdir' = FALSE
    /\ repo' = NoRepo

(* run(), lines 273-288: the loop moves to the next project or to the summary *)
NextProject ==
    /\ idx' = idx + 1
    /\ pc' = IF idx + 1 > Len(projects) THEN "summary" ELSE "detail"

(* Raise with a workspace that is not cleaned up on an exception *)
Raise_WorkspaceKept(step, status) ==
    IF RunHandler(step) = "record"
        THEN /\ failed' = Append(failed, <<projects[idx].name, ErrorText(step, status)>>)
             /\ repo' = NoRepo
             /\ NextProject
             /\ UNCHANGED <<exitCode, abortedAt, successful, projects, tempdir>>
        ELSE /\ Exit1(step)
             /\ UNCHANGED loop

(* Raise with the inner handler dropping the failure ("except: pass") *)
Raise_NotRecorded(step, status) ==
    IF RunHandler(step) = "record"
        THEN /\ tempdir' = FALSE
             /\ repo' = NoRepo
             /\ NextProject
             /\ UNCHANGED <<exitCode, abortedAt, successful, failed, projects>>
        ELSE /\ Exit1(step)
             /\ UNCHANGED loop

(* an exception raised by a step of the loop body, caught by the handler *)
(* RunHandler selects; the with-block releases the workspace either way  *)
Raise(step, status) ==
    IF RunHandler(step) = "record"
        THEN /\ failed' = Append(failed, <<projects[idx].name, ErrorText(step, status)>>)
             /\ tempdir' = FALSE
             /\ repo' = NoRepo
             /\ NextProject
             /\ UNCHANGED <<exitCode, abortedAt, successful, projects>>
        ELSE /\ Exit1(step)
             /\ UNCHANGED loop

----------------------------------------------------------------------------
(* Construction: GitLabToGOGSBackup.__init__ *)

(* _validate_config: a ValueError reaches main(); otherwise line 99    *)
(* strips the slashes from the end of self.gogs_url                    *)
ValidateConfig ==
    /\ pc = "validate"
    /\ IF MissingVars(env) # {}
          THEN /\ Exit1("config")
               /\ UNCHANGED gogsUrl
          ELSE /\ gogsUrl' = RStripSlash(gogsUrl)
               /\ pc' = "auth"
               /\ UNCHANGED <<exitCode, abortedAt, tempdir, repo>>
    /\ UNCHANGED <<env, group, srcRefs, dest, rerun, srcChanges, prev,
                   loop, summary, reqs, steps, pushed>>

(* self.gl.auth() *)
Auth ==
    /\ pc = "auth"
    /\ reqs' = reqs \cup {Req("gitlab", <<"auth">>, GitlabUrl(env)[2])}
    /\ \E status \in AuthStatuses(env) :
          /\ steps' = Append(steps, <<"auth", status>>)
          /\ IF GitlabOutcome(status) = "ok"
                THEN /\ pc' = IF OrgConfigured(env) THEN "verify_org" ELSE "run"
                     /\ UNCHANGED <<exitCode, abortedAt, tempdir, repo>>
                ELSE Exit1("auth")
    /\ UNCHANGED <<world, loop, summary, pushed>>

(* _verify_gogs_org_exists *)
VerifyGogsOrg ==
    /\ pc = "verify_org"
    /\ reqs' = reqs \cup {Req("GET", OrgEndpoint(env), "")}
    /\ \E status \in OrgStatuses :
          /\ steps' = Append(steps, <<"verify_org", status>>)
          /\ IF VerifyOrgOutcome(status) = "ok"
                THEN /\ pc' = "run"
                     /\ UNCHANGED <<exitCode, abortedAt, tempdir, repo>>
                ELSE Exit1("org")
    /\ UNCHANGED <<world, loop, summary, pushed>>

----------------------------------------------------------------------------
(* run(): enumeration *)

(* self.gl.groups.get(self.gitlab_group_id) *)
GetGroup ==
    /\ pc = "run"
    /\ reqs' = reqs \cup {Req("gitlab", <<"groups", env["GITLAB_GROUP_ID"]>>, "")}
    /\ \E status \in GitlabStatuses :
          /\ steps' = Append(steps, <<"group", status>>)
          /\ IF GitlabOutcome(status) = "ok"
                THEN /\ pc' = "list"
                     /\ UNCHANGED <<exitCode, abortedAt, tempdir, repo>>
                ELSE Exit1("group")
    /\ UNCHANGED <<world, loop, summary, pushed>>

(* group.projects.list(...); successful = [], failed = [] *)
ListProjects ==
    /\ pc = "list"
    /\ reqs' = reqs \cup
          {Req("gitlab", <<"groups", env["GITLAB_GROUP_ID"], "projects">>, "")}
    /\ \E status \in GitlabStatuses :
          /\ steps' = Append(steps, <<"list", status>>)
          /\ IF GitlabOutcome(status) = "ok"
                THEN /\ projects' = group
                     /\ successful' = <<>>
                     /\ failed' = <<>>
                     /\ idx' = 1
                     /\ pc' = IF Len(group) = 0 THEN "summary" ELSE "detail"
                     /\ UNCHANGED <<exitCode, abortedAt, tempdir, repo>>
                ELSE /\ Exit1("list")
                     /\ UNCHANGED loop
    /\ UNCHANGED <<world, summary, pushed>>

----------------------------------------------------------------------------
(* run(): the loop body, lines 273-288 *)

Project == projects[idx]

(* full_project = self.gl.projects.get(project.id), outside the inner try *)
GetProject ==
    /\ pc = "detail"
    /\ reqs' = reqs \cup {Req("gitlab", <<"projects", Project.path>>, "")}
    /\ \E status \in GitlabStatuses :
          /\ steps' = Append(steps, <<"detail", status>>)
          /\ IF GitlabOutcome(status) = "ok"
                THEN /\ pc' = "tempdir"
                     /\ UNCHANGED <<exitCode, abortedAt, tempdir, repo, loop>>
                ELSE Raise("detail", status)
    /\ UNCHANGED <<world, summary, pushed>>

(* _backup_repository: with tempfile.TemporaryDirectory() as temp_dir *)
AcquireWorkspace ==
    /\ pc = "tempdir"
    /\ \E result \in WorkspaceResults :
          IF result = 0
              THEN /\ tempdir' = TRUE
                   /\ steps' = <<>>
                   /\ pc' = "clone"
                   /\ UNCHANGED <<loop, repo, exitCode, abortedAt>>
              ELSE /\ steps' = <<<<"tempdir", result>>>>
                   /\ Raise("tempdir", result)
    /\ UNCHANGED <<world, summary, reqs, pushed>>

(* Repo.clone_from(gitlab_url, temp_dir, mirror=True) *)
CloneFromGitlab ==
    /\ pc = "clone"
    /\ reqs' = reqs \cup {Req("clone", GitlabCloneUrl(env, Project), "")}
    /\ \E result \in GitResults :
          /\ steps' = Append(steps, <<"clone", result>>)
          /\ IF result \in GitOK
                THEN /\ repo' = [cloned |-> TRUE, refs |-> srcRefs[Project.id],
                                 origin |-> GitlabCloneUrl(env, Project)]
                     /\ pc' = "exists"
                     /\ UNCHANGED <<exitCode, abortedAt, tempdir, loop>>
                ELSE Raise("clone", result)
    /\ UNCHANGED <<world, summary, pushed>>

(* self._check_gogs_repo_exists(project.name) *)
CheckGogsRepoExists ==
    /\ pc = "exists"
    /\ LET ep == ExistsEndpoint(env, Project.name) IN
          /\ reqs' = reqs \cup {Req("GET", ep, "")}
          /\ \E status \in ExistsStatuses(dest, RepoOfEndpoint(ep)) :
                /\ steps' = Append(steps, <<"exists", status>>)
                /\ CASE ExistsOutcome(status) = "True" ->
                            /\ pc' = "remote"
                            /\ UNCHANGED <<exitCode, abortedAt, tempdir, repo, loop>>
                     [] ExistsOutcome(status) = "False" ->
                            /\ pc' = "create"
                            /\ UNCHANGED <<exitCode, abortedAt, tempdir, repo, loop>>
                     [] OTHER -> Raise("exists", status)
    /\ UNCHANGED <<world, summary, pushed>>

(* self._create_gogs_repo(project) *)
CreateGogsRepo ==
    /\ pc = "create"
    /\ LET ep == CreateEndpoint(env)
           key == RepoOfCreate(env, ep, Project.name) IN
          /\ reqs' = reqs \cup {Req("POST", ep, Project.name)}
          /\ \E status \in CreateStatuses(dest, key) :
                /\ steps' = Append(steps, <<"create", status>>)
                /\ dest' = IF status = 201
                              THEN [dest EXCEPT ![key] = Present(NoRefs)]
                              ELSE dest
                /\ IF CreateOutcome(env, status) = "return"
                      THEN /\ pc' = "remote"
                           /\ UNCHANGED <<exitCode, abortedAt, tempdir, repo, loop>>
                      ELSE Raise("create", status)
    /\ UNCHANGED <<env, gogsUrl, group, srcRefs, rerun, srcChanges, prev,
                   summary, pushed>>

(* lines 232-236: delete remote origin, create remote origin -> gogs_url *)
UpdateRemote ==
    /\ pc = "remote"
    /\ \E result \in GitResults :
          /\ steps' = Append(steps, <<"remote", result>>)
          /\ IF result \in GitOK
                THEN /\ repo' = [repo EXCEPT !.origin = GogsCloneUrl(gogsUrl, env, Project.name)]
                     /\ pc' = "push"
                     /\ UNCHANGED <<exitCode, abortedAt, tempdir, loop>>
                ELSE Raise("remote", result)
    /\ UNCHANGED <<world, summary, reqs, pushed>>

(* origin.push(mirror=True): the destination takes the refs it takes,  *)
(* whether the call returns or raises; on return run() appends to      *)
(* successful, on GitCommandError to failed                            *)
PushMirror ==
    /\ pc = "push"
    /\ reqs' = reqs \cup {Req("push", repo.origin, "")}
    /\ \E result \in PushResults : \E taken \in PushTaken(result) :
          /\ steps' = Append(steps, <<"push", result>>)
          /\ dest' = [dest EXCEPT ![RepoOfUrl(repo.origin)] =
                          Present(AfterPush(@.refs, repo.refs, taken))]
          /\ pushed' = [pushed EXCEPT ![idx] =
                            [refs |-> repo.refs, taken |-> taken,
                             returned |-> PushOutcome(result) = "return"]]
          /\ IF PushOutcome(result) = "return"
                THEN /\ successful' = Append(successful, Project.name)
                     /\ tempdir' = FALSE
                     /\ repo' = NoRepo
                     /\ NextProject
                     /\ UNCHANGED <<exitCode, abortedAt, failed, projects>>
                ELSE Raise("push", result)
    /\ UNCHANGED <<env, gogsUrl, group, srcRefs, rerun, srcChanges, prev, summary>>

(* lines 290-301 and main() line 319: the summary and the exit status *)
Summary ==
    /\ pc = "summary"
    /\ summary' = TRUE
    /\ exitCode' = <<ExitStatus(failed)>>
    /\ pc' = "exited"
    /\ UNCHANGED <<world, loop, transfer, abortedAt, reqs>>

----------------------------------------------------------------------------
(* The surroundings *)

(* the job is started again (line 326) with the same environment *)
Restart ==
    /\ pc = "exited"
    /\ ~rerun
    /\ rerun' = TRUE
    /\ prev' = [ran |-> TRUE, pushed |-> pushed, dest |-> dest]
    /\ pc' = "validate"
    /\ projects' = <<>>
    /\ idx' = 0
    /\ successful' = <<>>
    /\ failed' = <<>>
    /\ tempdir' = FALSE
    /\ repo' = NoRepo
    /\ exitCode' = NoExit
    /\ summary' = FALSE
    /\ abortedAt' = "none"
    /\ reqs' = {}
    /\ steps' = <<>>
    /\ pushed' = NothingPushed
    /\ gogsUrl' = env["GOGS_INSTANCE_URL"]
    /\ UNCHANGED <<env, group, srcRefs, dest, srcChanges>>

(* a third party pushes to a source project: its refs change.  The job  *)
(* reads a project's refs only when it clones it, so a push before the   *)
(* clone is a source that started with those refs, and a push to a       *)
(* project of which the destination was sent nothing cannot be told from *)
(* none; the change is taken after the last transfer, before the         *)
(* summary, for a project whose push was made                            *)
SourceChange ==
    /\ srcChanges < MaxSrcChanges
    /\ \E i \in 1..Len(group) :
          /\ pc = "summary"
          /\ pushed[i] # NotPushed
          /\ srcRefs' = [srcRefs EXCEPT ![i] =
                            [r \in RefNames |-> <<i, srcRefs[i][r][2] + 1>>]]
    /\ srcChanges' = srcChanges + 1
    /\ UNCHANGED <<env, gogsUrl, group, dest, rerun, prev, pc, loop, transfer,
                   exitCode, summary, abortedAt, reqs>>

(* a third party creates an (empty) repository in the destination scope.  *)
(* The job reads a repository's presence in the existence check and in    *)
(* the creation request for it, so the creation is taken right before     *)
(* either of them                                                         *)
ExternalCreate ==
    /\ pc \in {"exists", "create"}
    /\ LET key == <<Owner(env), projects[idx].name>> IN
          /\ ~dest[key].exists
          /\ dest' = [dest EXCEPT ![key] = Present(NoRefs)]
    /\ UNCHANGED <<env, gogsUrl, group, srcRefs, rerun, srcChanges, prev, pc, loop, transfer,
                   exitCode, summary, abortedAt, reqs>>

(* one invocation of the job, with a third party at the destination; the *)
(* source refs are the ones of Init throughout                           *)
Next ==
    \/ ValidateConfig
    \/ Auth
    \/ VerifyGogsOrg
    \/ GetGroup
    \/ ListProjects
    \/ GetProject
    \/ AcquireWorkspace
    \/ CloneFromGitlab
    \/ CheckGogsRepoExists
    \/ CreateGogsRepo
    \/ UpdateRemote
    \/ PushMirror
    \/ Summary
    \/ ExternalCreate

Spec == Init /\ [][Next]_vars

(* an invocation and its re-run against the same destination, with a     *)
(* third party at the source                                             *)
NextRerun ==
    \/ ValidateConfig
    \/ Auth
    \/ VerifyGogsOrg
    \/ GetGroup
    \/ ListProjects
    \/ GetProject
    \/ AcquireWorkspace
    \/ CloneFromGitlab
    \/ CheckGogsRepoExists
    \/ CreateGogsRepo
    \/ UpdateRemote
    \/ PushMirror
    \/ Summary
    \/ SourceChange
    \/ Restart

(* the job is re-run as deployed: the nominal environment, in either    *)
(* scope, the source reporting https.  The re-run is followed for a      *)
(* project and one other project of the group, a namesake or not         *)
InitRerun ==
    /\ Init
    /\ env \in {Nominal, [Nominal EXCEPT !["GOGS_ORG"] = ""]}
    /\ \A i \in 1..Len(group) : group[i].url[1] = "https://"
    /\ Len(group) <= 2

SpecRerun == InitRerun /\ [][NextRerun]_vars

----------------------------------------------------------------------------
(* Properties *)

Range(seq) == {seq[i] : i \in DOMAIN seq}
Last(seq) == seq[Len(seq)]

(* what counts as the failure of a transfer step: a git command that    *)
(* exits non-zero, an existence check answered neither 200 nor 404, a   *)
(* creation answered neither 201 nor 409                                *)
Failure(step, status) ==
    CASE step \in {"tempdir", "clone", "remote", "push"} -> status # 0
      [] step = "exists" -> status \notin {200, 404}
      [] step = "create" -> status \notin {201, 409}

(* this step is the call `step`, answered with `status` *)
Answered(step, status) ==
    /\ pc = step
    /\ steps' = Append(steps, <<step, status>>)

(* number of projects whose loop iteration has ended *)
Processed == IF idx = 0 THEN 0 ELSE idx - 1

(* the hosts the authentication can go to *)
SourceHosts == {"gitlab.com", "", "gitlab.example"}

(* the name in a clone url {base}/{owner}/{name}.git *)
UrlName(url) == url[Len(url) - 1]

(* the url ends with /{owner}/{name}.git for a project name *)
PathForm(url, owner) ==
    /\ Len(url) >= 5
    /\ \E n \in Names :
          SubSeq(url, Len(url) - 4, Len(url)) = <<"/", owner, "/", n, ".git">>

(* the url names the destination host and nothing of the source *)
AtDestination(url) ==
    /\ "gogs" \in Range(url)
    /\ Range(url) \cap {"gitlab.example", "gitlab.com", "oauth2"} = {}

SetupRequests ==
    {Req("gitlab", <<"auth">>, h) : h \in SourceHosts}
        \cup {Req("GET", <<"orgs", OrgName>>, "")}

EnumerationRequests ==
    {Req("gitlab", <<"groups", ValueOf("GITLAB_GROUP_ID")>>, ""),
     Req("gitlab", <<"groups", ValueOf("GITLAB_GROUP_ID"), "projects">>, "")}

AllStatuses == {0, 1, 2, 128, 200, 201, 403, 404, 409, 500}

(* C1: a failure at any step of _backup_repository is recorded in the   *)
(* failed list under the project's name, releases the workspace and     *)
(* lets the loop go on to the next project in enumeration order (to the *)
(* summary after the last one); no transfer step ever ends the process. *)
C1_PerItemIsolation ==
    /\ [](abortedAt \notin TransferSteps)
    /\ [][\A step \in TransferSteps : \A status \in AllStatuses :
            (Answered(step, status) /\ Failure(step, status)) =>
                /\ failed' = Append(failed, <<projects[idx].name, <<step, status>>>>)
                /\ successful' = successful
                /\ exitCode' = <<>>
                /\ abortedAt' = "none"
                /\ tempdir' = FALSE
                /\ idx' = idx + 1
                /\ pc' = IF idx < Len(projects) THEN "detail" ELSE "summary"]_vars

(* C2: once the group is enumerated, the process only ends after the    *)
(* summary, with one outcome per enumerated project, whichever          *)
(* per-project step failed (the detail lookup included).                *)
C2_OneOutcomePerProject ==
    (pc = "exited" /\ idx >= 1) =>
        /\ summary
        /\ Len(successful) + Len(failed) = Len(projects)

(* C3: after i projects have been processed the two lists hold i        *)
(* entries together, each processed project being counted once (the     *)
(* names in the two lists are, with multiplicity, the names of the      *)
(* processed projects); at the summary i is the number enumerated.      *)
C3_Accounting ==
    /\ Len(successful) + Len(failed) = Processed
    /\ summary => Len(successful) + Len(failed) = Len(projects)
    /\ \A nm \in Names :
          Cardinality({i \in 1..Len(successful) : successful[i] = nm})
            + Cardinality({i \in 1..Len(failed) : failed[i][1] = nm})
          = Cardinality({i \in 1..Processed : projects[i].name = nm})

(* C3 witness: a completed run with entries in both lists *)
C3_Witness ==
    /\ summary
    /\ Len(projects) = 2
    /\ Len(successful) = 1
    /\ Len(failed) = 1

(* C4: the process exits with 0 exactly when the configuration was      *)
(* valid, no setup or enumeration call raised, the full pass was made   *)
(* and the failed list is empty; every other exit is with 1.            *)
C4_ExitStatus ==
    pc = "exited" =>
        /\ exitCode \in {<<0>>, <<1>>}
        /\ exitCode = <<0>> <=>
              /\ MissingVars(env) = {}
              /\ abortedAt = "none"
              /\ summary
              /\ Len(successful) = Len(projects)
              /\ failed = <<>>

(* C4 witness: exit 0 after a full pass over two projects under an      *)
(* organization                                                         *)
C4_Witness ==
    /\ pc = "exited"
    /\ exitCode = <<0>>
    /\ env["GOGS_ORG"] = OrgName
    /\ Len(successful) = 2

(* C5 as stated: under an organization, a creation answered 404 ends    *)
(* the process at once with status 1 and is not put in the failed list. *)
C5_CreateNotFoundFatal ==
    [][(env["GOGS_ORG"] # "" /\ Answered("create", 404)) =>
            /\ pc' = "exited"
            /\ exitCode' = <<1>>
            /\ failed' = failed]_vars

(* C5 amended: under an organization, a creation answered 404 is        *)
(* recorded in the failed list like any other transfer failure: neither *)
(* the remote is reconciled nor a push made for that project, the loop  *)
(* goes on to the next project, and the process later exits with 1.     *)
C5_CreateNotFoundRecorded ==
    /\ [][(env["GOGS_ORG"] # "" /\ Answered("create", 404)) =>
            /\ failed' = Append(failed, <<projects[idx].name, <<"create", 404>>>>)
            /\ exitCode' = <<>>
            /\ idx' = idx + 1
            /\ pc' = IF idx < Len(projects) THEN "detail" ELSE "summary"
            /\ dest' = dest]_vars
    /\ []((pc = "exited" /\ \E i \in 1..Len(failed) : failed[i][2] = <<"create", 404>>)
             => exitCode = <<1>>)

(* C5 witness: under an organization the first project's creation was   *)
(* answered 404, the second project was transferred afterwards          *)
C5_Witness ==
    /\ env["GOGS_ORG"] = OrgName
    /\ pc = "exited"
    /\ summary
    /\ Len(projects) = 2
    /\ failed = <<<<projects[1].name, <<"create", 404>>>>>>
    /\ successful = <<projects[2].name>>

(* what follows a creation answered at position j of steps *)
AfterCreate(j) ==
    IF Len(steps) = j THEN pc = "remote"
    ELSE /\ steps[j + 1][1] = "remote"
         /\ steps[j + 1][2] = 0 =>
               IF Len(steps) = j + 1 THEN pc = "push"
               ELSE /\ steps[j + 2][1] = "push"
                    /\ steps[j + 2][2] = 0 =>
                          /\ successful # <<>>
                          /\ Last(successful) = projects[idx - 1].name
                          /\ dest[<<Owner(env), projects[idx - 1].name>>]
                                = Present(pushed[idx - 1].refs)
                    /\ steps[j + 2][2] = 128 =>
                          /\ failed # <<>>
                          /\ Last(failed) = <<projects[idx - 1].name, <<"push", 128>>>>
         /\ steps[j + 1][2] # 0 =>
               /\ failed # <<>>
               /\ Last(failed) = <<projects[idx - 1].name, <<"remote", 128>>>>

(* C6: a creation answered 409 is followed by exactly what follows one  *)
(* answered 201: nothing is recorded at that step, the repository       *)
(* exists, the remote is reconciled next, then the mirror push is made, *)
(* and the project is recorded successful when the push succeeds.       *)
C6_ConflictIsSuccess ==
    /\ [][\A status \in {201, 409} : Answered("create", status) =>
            /\ pc' = "remote"
            /\ dest'[<<Owner(env), projects[idx].name>>].exists
            /\ UNCHANGED <<loop, tempdir, repo, exitCode, abortedAt>>]_vars
    /\ [](\A status \in {201, 409} : \A j \in 1..Len(steps) :
            steps[j] = <<"create", status>> => AfterCreate(j))

(* C6 witness: existence check answered absent, creation answered 409,  *)
(* the push was made and the project is in the successful list          *)
C6_Witness ==
    /\ Len(steps) >= 5
    /\ SubSeq(steps, 1, 5) = <<<<"clone", 0>>, <<"exists", 404>>, <<"create", 409>>,
                               <<"remote", 0>>, <<"push", 0>>>>
    /\ Last(successful) = projects[idx - 1].name

(* the short name of project i is shared with no other project of the group *)
UniqueName(i) == \A j \in 1..Len(group) : j # i => group[j].name # group[i].name

(* in the re-run: the first run transferred project i successfully (its *)
(* push returned and the destination took every ref) and its source     *)
(* refs are still the ones the first run cloned (nobody else writes to  *)
(* its destination repository)                                          *)
TransferredAndUnchanged(i) ==
    /\ rerun
    /\ prev.pushed[i].returned
    /\ prev.pushed[i].taken = RefNames
    /\ srcRefs[i] = prev.pushed[i].refs

(* the re-run has asked for no creation of a repository named as project *)
(* i and the destination repository of that name is as the first run     *)
(* left it                                                               *)
NothingNewFor(i) ==
    /\ \A r \in reqs : r.op = "POST" => r.name # group[i].name
    /\ prev.dest[<<Owner(env), group[i].name>>].exists
    /\ dest[<<Owner(env), group[i].name>>] = prev.dest[<<Owner(env), group[i].name>>]

(* C7 as stated: for every project the first run transferred            *)
(* successfully and whose source refs did not change, the re-run issues *)
(* no creation request and leaves the destination repository and its    *)
(* refs as they were after the first run.                               *)
C7_RerunChangesNothing ==
    \A i \in 1..Len(group) : TransferredAndUnchanged(i) => NothingNewFor(i)

(* C7 amended: the same, for a project whose short name no other        *)
(* enumerated project has.                                              *)
C7_RerunChangesNothingUniqueName ==
    \A i \in 1..Len(group) :
        (UniqueName(i) /\ TransferredAndUnchanged(i)) => NothingNewFor(i)

(* C7 witness: in a group of two differently named projects the first   *)
(* was transferred by the first run and pushed again, with the same     *)
(* refs, by the completed re-run                                        *)
C7_Witness ==
    /\ rerun
    /\ summary
    /\ Len(group) = 2
    /\ UniqueName(1)
    /\ TransferredAndUnchanged(1)
    /\ pushed[1] = [refs |-> RefsOf(1, 1), taken |-> RefNames, returned |-> TRUE]
    /\ dest[<<Owner(env), group[1].name>>] = Present(RefsOf(1, 1))

(* C8: a pre-flight answered with anything but success ends the process *)
(* with status 1 when only the authentication and the pre-flight        *)
(* request have been issued and no workspace was acquired; without an   *)
(* organization no pre-flight request is ever issued.                   *)
C8_OrgPreflight ==
    /\ \A status \in OrgStatuses \ {200} :
          <<"verify_org", status>> \in Range(steps) =>
              /\ pc = "exited"
              /\ exitCode = <<1>>
              /\ reqs \subseteq SetupRequests
              /\ ~tempdir
              /\ ~summary
    /\ env["GOGS_ORG"] = "" =>
          \A r \in reqs : ~(r.op = "GET" /\ r.target[1] = "orgs")

(* C8 witness: the pre-flight was answered 403 and the process exited *)
C8_Witness ==
    /\ <<"verify_org", 403>> \in Range(steps)
    /\ pc = "exited"
    /\ Req("GET", <<"orgs", OrgName>>, "") \in reqs

(* C9: a failed group lookup or project listing ends the process with   *)
(* status 1, without summary, with no project enumerated, no workspace  *)
(* acquired and no request issued in run() but the lookup and the       *)
(* listing themselves.                                                  *)
C9_EnumerationFailureAborts ==
    (\E status \in GitlabStatuses \ {200} :
        <<"group", status>> \in Range(steps) \/ <<"list", status>> \in Range(steps)) =>
            /\ pc = "exited"
            /\ exitCode = <<1>>
            /\ ~summary
            /\ ~tempdir
            /\ projects = <<>>
            /\ successful = <<>> /\ failed = <<>>
            /\ reqs \subseteq SetupRequests \cup EnumerationRequests

(* C9 witness: the listing failed after a successful group lookup *)
C9_Witness ==
    /\ <<"group", 200>> \in Range(steps)
    /\ <<"list", 404>> \in Range(steps)
    /\ pc = "exited"

(* the requests that address a destination repository *)
DestRequests ==
    {r \in reqs : r.op \in {"POST", "push"} \/ (r.op = "GET" /\ r.target[1] = "repos")}

OrgForm(r) ==
    CASE r.op = "GET" -> r.target[2] = OrgName /\ r.target[3] \in Names
      [] r.op = "POST" -> r.target = <<"org", OrgName, "repos">>
      [] r.op = "push" -> PathForm(r.target, OrgName)

UserForm(r) ==
    CASE r.op = "GET" -> r.target[2] = UserName /\ r.target[3] \in Names
      [] r.op = "POST" -> r.target = <<"user", "repos">>
      [] r.op = "push" -> PathForm(r.target, UserName)

(* C10: with an organization configured every existence check, creation *)
(* request and push url of the run has the organization form, without   *)
(* one every one has the user form; no run has requests of both forms.  *)
C10_ScopeConsistency ==
    /\ env["GOGS_ORG"] # "" => \A r \in DestRequests : OrgForm(r)
    /\ env["GOGS_ORG"] = "" => \A r \in DestRequests : UserForm(r)
    /\ ~(\E r1, r2 \in DestRequests : OrgForm(r1) /\ UserForm(r2))

(* C10 witness: under an organization an existence check, a creation    *)
(* and a push have all been issued                                      *)
C10_Witness ==
    /\ env["GOGS_ORG"] = OrgName
    /\ \E r \in reqs : r.op = "GET" /\ r.target[1] = "repos"
    /\ \E r \in reqs : r.op = "POST"
    /\ \E r \in reqs : r.op = "push"

(* the names of the projects at the positions in S, in enumeration order *)
NamesAt(S) ==
    LET F[n \in 0..Len(projects)] ==
            IF n = 0 THEN <<>>
            ELSE IF n \in S THEN Append(F[n - 1], projects[n].name) ELSE F[n - 1]
    IN F[Len(projects)]

(* the positions of the projects whose mirror push returned in this run *)
Returned == {i \in 1..Len(projects) : pushed[i].returned}

(* the positions of the projects whose mirror push succeeded in this    *)
(* run: the destination took every ref                                  *)
Transferred == {i \in Returned : pushed[i].taken = RefNames}

(* the short names of the enumerated projects are pairwise distinct *)
DistinctNames == \A i \in 1..Len(projects) : UniqueName(i)

(* C11: at the summary of a run over a group with pairwise distinct     *)
(* short names whose source refs did not change, the successful list    *)
(* is the names of the projects whose push succeeded, in enumeration    *)
(* order, the failed list is the names of the others, in enumeration    *)
(* order, each with the failing step and its error as text, and every   *)
(* successful project's destination repository exists and holds the     *)
(* project's source refs.                                               *)
C11_SummaryAndMirroredState ==
    (summary /\ DistinctNames /\ srcChanges = 0) =>
        /\ successful = NamesAt(Transferred)
        /\ [i \in 1..Len(failed) |-> failed[i][1]]
              = NamesAt((1..Len(projects)) \ Transferred)
        /\ \A i \in 1..Len(failed) :
              /\ failed[i][2][1] \in {"tempdir"} \cup TransferSteps
              /\ Failure(failed[i][2][1], failed[i][2][2])
        /\ \A i \in Transferred :
              dest[<<Owner(env), projects[i].name>>] = Present(srcRefs[projects[i].id])
        /\ exitCode = <<IF failed = <<>> THEN 0 ELSE 1>>

(* the calls of the latest transfer, in the order they were made *)
TransferTrace == SelectSeq(steps, LAMBDA st : st[1] \in TransferSteps)

(* C12: an existence check answered with success leads to the remote    *)
(* reconciliation without a creation, one answered 404 leads to the     *)
(* creation, any other answer is recorded as the project's failure and  *)
(* neither a creation nor a push follows for that project; no answer    *)
(* of the existence check changes the destination.                      *)
C12_ExistenceCheck ==
    /\ [][\A status \in AllStatuses : Answered("exists", status) =>
            /\ dest' = dest
            /\ status = 200 => pc' = "remote" /\ failed' = failed
            /\ status = 404 => pc' = "create" /\ failed' = failed
            /\ status \notin {200, 404} =>
                  /\ failed' = Append(failed, <<projects[idx].name, <<"exists", status>>>>)
                  /\ pc' \in {"detail", "summary"}
                  /\ reqs' \ reqs \subseteq {Req("GET", <<"repos", Owner(env), projects[idx].name>>, "")}]_vars
    /\ [](\A j \in 1..Len(TransferTrace) :
            (TransferTrace[j][1] = "exists" /\ TransferTrace[j][2] \notin {200, 404})
                => j = Len(TransferTrace))

(* C12 witness: an existence check was answered 500 and the project is  *)
(* in the failed list, the loop having moved on                         *)
C12_Witness ==
    /\ Len(TransferTrace) = 2
    /\ TransferTrace[2] = <<"exists", 500>>
    /\ failed # <<>>
    /\ Last(failed) = <<projects[idx - 1].name, <<"exists", 500>>>>
    /\ pc \in {"detail", "summary"}

(* C13: the workspace is acquired only where a transfer starts and is   *)
(* held exactly while the transfer's steps run: none is held when a     *)
(* workspace is acquired (so never two at once), none when the next     *)
(* project is looked up, none at the summary or at the exit, and every  *)
(* step that ends a transfer, by success or by failure, releases it.    *)
C13_WorkspaceReleased ==
    /\ [](tempdir <=> pc \in TransferSteps)
    /\ [](pc \in {"detail", "tempdir", "summary", "exited"} => ~tempdir)
    /\ [][(~tempdir /\ tempdir') => pc = "tempdir" /\ pc' = "clone"]_vars
    /\ [][(pc \in TransferSteps /\ pc' \notin TransferSteps) => tempdir /\ ~tempdir']_vars

(* C13 witness: the first transfer ended with a failed push, its        *)
(* workspace is released and the second project is about to be looked   *)
(* up                                                                   *)
C13_Witness ==
    /\ pc = "detail"
    /\ idx = 2
    /\ Len(TransferTrace) >= 4
    /\ Last(TransferTrace) = <<"push", 128>>
    /\ Len(failed) = 1
    /\ ~tempdir

(* the settings the job cannot run without *)
SettingsNeeded ==
    {"GITLAB_TOKEN", "GITLAB_GROUP_ID", "GOGS_INSTANCE_URL", "GOGS_USERNAME",
     "GOGS_ACCESS_TOKEN"}

(* C14: when the source token, the group id, the destination URL, the   *)
(* destination username or the destination token is empty, the process  *)
(* goes from the validation to the exit with status 1: no call to the   *)
(* source, no request to the destination (the organization pre-flight   *)
(* included), no project enumerated, no workspace, destination          *)
(* untouched.                                                           *)
C14_ConfigErrorFatal ==
    (\E v \in SettingsNeeded : env[v] = EmptyValue(v)) =>
        /\ pc \in {"validate", "exited"}
        /\ pc = "exited" => exitCode = <<1>> /\ abortedAt = "config" /\ ~summary
        /\ reqs = {}
        /\ steps = <<>>
        /\ projects = <<>>
        /\ successful = <<>> /\ failed = <<>>
        /\ ~tempdir
        /\ \A k \in DOMAIN dest : dest[k] = Absent

(* C14 witness: the destination token is the only empty setting, an     *)
(* organization is configured, and the process has exited with 1        *)
C14_Witness ==
    /\ pc = "exited"
    /\ exitCode = <<1>>
    /\ env["GOGS_ACCESS_TOKEN"] = ""
    /\ \A v \in SettingsNeeded \ {"GOGS_ACCESS_TOKEN"} : env[v] # EmptyValue(v)
    /\ OrgConfigured(env)
    /\ reqs = {}

(* the step that may come after a step that went through *)
Follows(before, after) ==
    CASE before[1] = "clone"  -> after[1] = "exists"
      [] before[1] = "exists" -> IF before[2] = 404 THEN after[1] = "create"
                                 ELSE after[1] = "remote"
      [] before[1] = "create" -> after[1] = "remote"
      [] before[1] = "remote" -> after[1] = "push"
      [] before[1] = "push"   -> FALSE

(* C15: the steps of one transfer are made in the order clone,          *)
(* existence check, creation (only after an existence check answered    *)
(* absent), remote reconciliation, push, each at most once and only     *)
(* after the step before it went through; a failing step is the last    *)
(* step of its transfer and adds exactly one entry to the failed list;  *)
(* after the remote reconciliation origin is the destination URL of the *)
(* project, and every push is issued to a destination URL, never to the *)
(* source.                                                              *)
C15_StepOrder ==
    /\ [](\A j \in 1..Len(TransferTrace) :
            /\ j = 1 => TransferTrace[j][1] = "clone"
            /\ j > 1 => /\ ~Failure(TransferTrace[j - 1][1], TransferTrace[j - 1][2])
                        /\ Follows(TransferTrace[j - 1], TransferTrace[j]))
    /\ [][\A step \in TransferSteps : \A status \in AllStatuses :
            (Answered(step, status) /\ Failure(step, status)) =>
                /\ failed' = Append(failed, <<projects[idx].name, <<step, status>>>>)
                /\ successful' = successful
                /\ pc' \notin TransferSteps]_vars
    /\ [](pc = "push" => /\ AtDestination(repo.origin)
                          /\ UrlName(repo.origin) = projects[idx].name)
    /\ [](\A r \in reqs : r.op = "push" => AtDestination(r.target))

(* C16 as stated: a creation answered 404 ends the run when an          *)
(* organization is configured and is recorded in the failed list, the   *)
(* loop going on, when none is configured.                              *)
C16_CreateNotFoundAsymmetry ==
    [][Answered("create", 404) =>
          IF env["GOGS_ORG"] # ""
              THEN /\ pc' = "exited"
                   /\ exitCode' = <<1>>
                   /\ ~summary'
              ELSE /\ failed' = Append(failed, <<projects[idx].name, <<"create", 404>>>>)
                   /\ pc' \in {"detail", "summary"}]_vars

(* C16 amended: a creation answered 404 is handled alike in both        *)
(* scopes: with or without an organization the project is recorded in   *)
(* the failed list with the same error, nothing is exited, the loop     *)
(* goes on with the next project, and no creation failure ever ends the *)
(* run.                                                                 *)
C16_CreateNotFoundSymmetry ==
    /\ [][\A scope \in {OrgName, ""} :
            (env["GOGS_ORG"] = scope /\ Answered("create", 404)) =>
                /\ failed' = Append(failed, <<projects[idx].name, <<"create", 404>>>>)
                /\ successful' = successful
                /\ exitCode' = <<>>
                /\ idx' = idx + 1
                /\ pc' = IF idx < Len(projects) THEN "detail" ELSE "summary"]_vars
    /\ [](abortedAt # "create")

(* C16 witness: in the personal scope the first project's creation was  *)
(* answered 404 and recorded, the second project was transferred        *)
C16_Witness ==
    /\ env["GOGS_ORG"] = ""
    /\ summary
    /\ exitCode = <<1>>
    /\ Len(projects) = 2
    /\ failed = <<<<projects[1].name, <<"create", 404>>>>>>
    /\ successful = <<projects[2].name>>
    /\ \E r \in reqs : r.op = "POST" /\ r.target = <<"user", "repos">>

(* the projects of short name n recorded successful in this run *)
Namesakes(n) == {i \in Returned : projects[i].name = n}

(* the largest element of a non-empty set of positions *)
Latest(S) == CHOOSE i \in S : \A j \in S : j <= i

(* C17: the destination repository is addressed by the scope and the    *)
(* short name alone: where two projects of one short name were recorded *)
(* successful, the one destination repository of that name holds the    *)
(* refs pushed by the latest of them in enumeration order and only      *)
(* those, and the existence check of a project with an already pushed   *)
(* namesake is never followed by a creation.                            *)
C17_NameCollision ==
    /\ [](\A n \in Names : Cardinality(Namesakes(n)) >= 2 =>
            dest[<<IF env["GOGS_ORG"] # "" THEN env["GOGS_ORG"] ELSE env["GOGS_USERNAME"], n>>]
                = Present(pushed[Latest(Namesakes(n))].refs))
    /\ [](\A i \in Returned : projects[i].name \in Range(successful))
    /\ [][\A status \in AllStatuses :
            (/\ Answered("exists", status)
             /\ \E i \in Returned : i < idx /\ projects[i].name = projects[idx].name)
                => status # 404 /\ pc' # "create"]_vars
    /\ [](\A r \in reqs : r.op = "push" =>
            \E n \in Names : r.target = GogsCloneUrl(gogsUrl, env, n))

(* the project the latest transfer is or was about *)
TransferProject == IF pc \in TransferSteps THEN projects[idx] ELSE projects[idx - 1]

(* the destination repository a short name stands for in this scope *)
DestKeyOf(n) ==
    <<IF env["GOGS_ORG"] # "" THEN env["GOGS_ORG"] ELSE env["GOGS_USERNAME"], n>>

(* C18: no step ever removes a destination repository; a repository     *)
(* created in a transfer exists from then on, also when the remote      *)
(* reconciliation or the push of that transfer fails, in which case the *)
(* project is in the failed list while the repository exists; a later   *)
(* run finds a repository that existed at the end of the run before     *)
(* and issues no creation request for it.                               *)
C18_NoRollback ==
    /\ [][\A k \in DOMAIN dest : dest[k].exists => dest'[k].exists]_vars
    /\ [](\A j \in 1..Len(TransferTrace) : TransferTrace[j] = <<"create", 201>> =>
            /\ dest[DestKeyOf(TransferProject.name)].exists
            /\ \A step \in {"remote", "push"} :
                  (Last(TransferTrace)[1] = step /\ Failure(step, Last(TransferTrace)[2])) =>
                      /\ failed # <<>>
                      /\ Last(failed) = <<TransferProject.name, Last(TransferTrace)>>)
    /\ [][\A status \in AllStatuses :
            (/\ rerun
             /\ Answered("exists", status)
             /\ prev.dest[DestKeyOf(projects[idx].name)].exists)
                => status # 404 /\ pc' # "create"]_vars
    /\ [](rerun => \A r \in reqs : r.op = "POST" =>
                      ~prev.dest[DestKeyOf(r.name)].exists)

(* the requests to the destination that name the short name n *)
DestRequestsFor(n) ==
    {r \in reqs : \/ r.op = "GET" /\ r.target[1] = "repos" /\ r.target[3] = n
                  \/ r.op = "POST" /\ r.name = n
                  \/ r.op = "push" /\ UrlName(r.target) = n}

(* C19: a failed clone is the only step of its transfer: the step       *)
(* issues nothing but the clone, leaves the destination as it is and    *)
(* records the failure; no existence check, creation or push is ever    *)
(* made in a transfer whose clone did not succeed, and a project of a   *)
(* short name of its own that failed at the clone has no request to the *)
(* destination and no destination repository.                           *)
C19_CloneFailureNoDestination ==
    /\ [][Answered("clone", 128) =>
            /\ dest' = dest
            /\ \A r \in reqs' \ reqs : r.op = "clone"
            /\ failed' = Append(failed, <<projects[idx].name, <<"clone", 128>>>>)
            /\ pc' \notin TransferSteps]_vars
    /\ [](\A j \in 1..Len(TransferTrace) :
            TransferTrace[j][1] \in {"exists", "create", "remote", "push"}
                => TransferTrace[1] = <<"clone", 0>>)
    /\ [](\A i \in 1..Len(projects) :
            (UniqueName(i) /\ <<projects[i].name, <<"clone", 128>>>> \in Range(failed)) =>
                /\ DestRequestsFor(projects[i].name) = {}
                /\ ~dest[DestKeyOf(projects[i].name)].exists)

(* C19 witness: the first project's clone failed, the second project,   *)
(* of another short name, was created and transferred; the first has no *)
(* destination repository                                               *)
C19_Witness ==
    /\ summary
    /\ Len(projects) = 2
    /\ projects[1].name # projects[2].name
    /\ failed = <<<<projects[1].name, <<"clone", 128>>>>>>
    /\ successful = <<projects[2].name>>
    /\ DestRequestsFor(projects[1].name) = {}
    /\ DestRequestsFor(projects[2].name) # {}
    /\ dest[DestKeyOf(projects[1].name)] = Absent

====
